---------------------------- MODULE Spec2Model ----------------------------
(***************************************************************************)
(* Model of the wireless-debugging server core:                            *)
(*   - server/controller/websocket.py : the per-connection receive loop,   *)
(*     the message handlers and the registry _web_ui_ws_connections;       *)
(*   - server/parsing_lib/log_parser.py : LogParser.parse and its helpers. *)
(*                                                                         *)
(* Two specifications share the module.  Spec runs the connections of the  *)
(* websocket controller; ParserSpec applies LogParser.parse to every       *)
(* bounded rawLogData.                                                     *)
(***************************************************************************)
EXTENDS Naturals, Sequences, FiniteSets

VARIABLES
    rawLogData,   \* log_parser.py:23  message['rawLogData'].splitlines()
    parsed,       \* what LogParser.parse returned or raised ("pending" before)
    pc,           \* per connection: where its handle_websocket call stands
    closed,       \* per connection: websocket.closed / the transport is dead
    websocket_metadata,       \* websocket.py:35, one dict per connection
    _web_ui_ws_connections,   \* websocket.py:17, the registry (ordered dict)
    fan,          \* per connection: the fan-out loop of device_metrics
    inbox,        \* per connection: the messages sent to it, in order
    datastore,    \* the calls made on controller.datastore_interface
    raised,       \* per connection: the exception that left handle_websocket
    cleanups,     \* history: runs of the disconnect cleanup, per connection
    associated,   \* history: the keys each connection sent associateUser for
    attach_count, \* history: associateUser messages handled, per connection, key
    raised_in,    \* per connection: the handler the exception was raised in
    ignored,      \* history: the reads a loop skipped with continue
    log_dumps,    \* history: the rawLogData of the logDump messages dispatched
    send_errors,  \* history: fan-out sends of the connection that raised
    received      \* messages read so far, over all connections

parserVars == <<rawLogData, parsed>>
routerVars == <<pc, closed, websocket_metadata, _web_ui_ws_connections, fan,
                inbox, datastore, raised, cleanups, associated, log_dumps,
                send_errors, received, attach_count, raised_in, ignored>>
vars == <<parserVars, routerVars>>

(***************************************************************************)
(* Bounds.                                                                 *)
(***************************************************************************)
MaxLines == 3     \* physical lines in one rawLogData
MaxMsgs  == 3     \* messages read by the server, over all connections
MaxScenarioMsgs == 4   \* the same, in ScenarioSpec
MaxFanMsgs == 4        \* the same, in FanSpec
MaxDumpMsgs == 3       \* the same, in DumpSpec
MaxDumpLines == 3      \* physical lines of the rawLogData of DumpSpec

(***************************************************************************)
(* LogParser (log_parser.py).                                              *)
(*                                                                         *)
(* A physical line is a record.  kind "log" is a line the header regex of  *)
(* parse_raw_log matches, with the six captured groups as fields:          *)
(*    "<time> <processId> <threadId> <level> <tag>: <text>"                *)
(* kind "beginning" is the logcat banner                                   *)
(*    "--------- beginning of /dev/log/main"                               *)
(* and kind "junk" is any other line the header regex does not match (an   *)
(* empty line, a wrapped stack-trace line).  The time group is              *)
(* "<stamp>.<frac>" with frac a sequence of decimal digits; the text group  *)
(* is a sequence of pieces.                                                *)
(***************************************************************************)
BeginningPiece == "beginning of /dev/log/"

ValidStamps == {"01-02 03:04:05", "01-02 03:04:06"}

LogLine(stamp, frac, pid, tid, level, tag, text) ==
    [kind |-> "log", stamp |-> stamp, frac |-> frac, processId |-> pid,
     threadId |-> tid, level |-> level, tag |-> tag, text |-> text]

BeginningLine ==
    [kind |-> "beginning", stamp |-> "", frac |-> << >>, processId |-> "",
     threadId |-> "", level |-> "", tag |-> "", text |-> <<BeginningPiece>>]

JunkLine ==
    [kind |-> "junk", stamp |-> "", frac |-> << >>, processId |-> "",
     threadId |-> "", level |-> "", tag |-> "", text |-> <<"junk">>]

LevelChars == {"I", "W", "V", "E", "D", "A", "X"}

\* The physical lines the inputs are drawn from: one base line, the base line
\* with each header field changed in turn, and the lines that are not entries.
Lines ==
    {LogLine("01-02 03:04:05", <<5>>, "10", "20", l, "Tag", <<"a">>) :
        l \in LevelChars}
    \cup
    {LogLine("01-02 03:04:05", <<5>>, "10", "20", "I", "Tag", <<"b">>),
     LogLine("01-02 03:04:05", <<5, 0>>, "10", "20", "I", "Tag", <<"c">>),
     LogLine("01-02 03:04:06", <<5>>, "10", "20", "I", "Tag", <<"a">>),
     LogLine("01-02 03:04:05", <<5>>, "11", "20", "I", "Tag", <<"a">>),
     LogLine("01-02 03:04:05", <<5>>, "10", "21", "I", "Tag", <<"a">>),
     LogLine("01-02 03:04:05", <<5>>, "10", "20", "I", "Gat", <<"a">>),
     LogLine("01-02 03:04:05", <<5>>, "10", "20", "I", "Tag",
             <<"at ", BeginningPiece>>),
     LogLine("13-45 03:04:05", <<5>>, "10", "20", "I", "Tag", <<"a">>),
     BeginningLine,
     JunkLine}

RECURSIVE SeqsUpTo(_, _)
SeqsUpTo(S, n) ==
    IF n = 0 THEN {<< >>}
    ELSE LET shorter == SeqsUpTo(S, n - 1)
         IN  shorter \cup {Append(s, x) : s \in {t \in shorter : Len(t) = n - 1},
                                          x \in S}

Raised(kind) == [status |-> kind, value |-> << >>]
Returned(v)  == [status |-> "ok", value |-> v]

\* log_parser.py:26,38  re.search('beginning of /dev/log/', line): a search
\* anywhere in the line, so a log line whose text holds the phrase matches too.
IsBeginning(line) ==
    \E i \in 1..Len(line.text) : line.text[i] = BeginningPiece

\* datetime.strptime %f: one to six digits, right-padded with zeros.
RECURSIVE Microsecond(_, _)
Microsecond(frac, width) ==
    IF width = 0 THEN 0
    ELSE IF frac = << >> THEN 0
    ELSE Head(frac) * (10 ^ (width - 1)) + Microsecond(Tail(frac), width - 1)

\* log_parser.py:94-96  inject the current year and parse the timestamp.
strptime(stamp, frac) ==
    IF stamp \in ValidStamps /\ Len(frac) \in 1..6
    THEN Returned([year |-> "now.year", stamp |-> stamp,
                   microsecond |-> Microsecond(frac, 6)])
    ELSE Raised("ValueError")

\* log_types with the 'A' entry left out.
log_types_without_wtf ==
    [c \in {"I", "W", "V", "E", "D"} |->
        CASE c = "I" -> "Info"
          [] c = "W" -> "Warning"
          [] c = "V" -> "Verbose"
          [] c = "E" -> "Error"
          [] c = "D" -> "Debug"]

\* log_parser.py:99-106
log_types ==
    [c \in {"I", "W", "V", "E", "D", "A"} |->
        CASE c = "I" -> "Info"
          [] c = "W" -> "Warning"
          [] c = "V" -> "Verbose"
          [] c = "E" -> "Error"
          [] c = "D" -> "Debug"
          [] c = "A" -> "WTF"]

\* log_parser.py:79-115
parse_raw_log(log_data) ==
    IF log_data.kind # "log" THEN Raised("AttributeError")
    ELSE LET log_time == strptime(log_data.stamp, log_data.frac)
         IN  IF log_time.status # "ok" THEN log_time
             ELSE IF log_data.level \notin DOMAIN log_types
                  THEN Raised("KeyError")
             ELSE Returned([time      |-> log_time.value,
                            processId |-> log_data.processId,
                            threadId  |-> log_data.threadId,
                            logType   |-> log_types[log_data.level],
                            tag       |-> log_data.tag,
                            text      |-> log_data.text])

\* log_parser.py:61-76
parse_entries(log_entry) ==
    [time    |-> log_entry.time,
     logType |-> log_entry.logType,
     tag     |-> log_entry.tag,
     text    |-> log_entry.text]

\* SameEvent with the threadId comparison of line 45 left out.
SameEventIgnoringThread(current_log, old_log) ==
    /\ current_log.time = old_log.time
    /\ current_log.processId = old_log.processId
    /\ current_log.logType = old_log.logType
    /\ current_log.tag = old_log.tag

\* log_parser.py:43-47  negated: the line belongs to the previous line's event.
SameEvent(current_log, old_log) ==
    /\ current_log.time = old_log.time
    /\ current_log.processId = old_log.processId
    /\ current_log.threadId = old_log.threadId
    /\ current_log.logType = old_log.logType
    /\ current_log.tag = old_log.tag

\* log_parser.py:52  log_entries[-1]['text'] += ('\n %s' % current_log['text'])
MergeText(entry_text, text) == entry_text \o <<"\n ">> \o text

\* StripLeading with an if in place of the while of line 26.
StripLeadingOnce(raw_data) ==
    IF raw_data = << >> THEN Raised("IndexError")
    ELSE IF ~IsBeginning(raw_data[1]) THEN Returned(raw_data)
    ELSE IF Tail(raw_data) = << >> THEN Raised("IndexError")
    ELSE Returned(Tail(raw_data))

\* log_parser.py:26-27  while re.search(...raw_data[0]): raw_data = raw_data[1:]
\* raw_data[0] of an empty list raises IndexError.
RECURSIVE StripLeading(_)
StripLeading(raw_data) ==
    IF raw_data = << >> THEN Raised("IndexError")
    ELSE IF IsBeginning(raw_data[1]) THEN StripLeading(Tail(raw_data))
    ELSE Returned(raw_data)

\* ParseLoop skipping the lines parse_raw_log raises for.
RECURSIVE ParseLoopSkipping(_, _, _)
ParseLoopSkipping(lines, old_log, log_entries) ==
    IF lines = << >> THEN Returned(log_entries)
    ELSE IF IsBeginning(Head(lines))
         THEN ParseLoopSkipping(Tail(lines), old_log, log_entries)
    ELSE LET current == parse_raw_log(Head(lines))
             n       == Len(log_entries)
         IN  IF current.status # "ok"
             THEN ParseLoopSkipping(Tail(lines), old_log, log_entries)
             ELSE IF ~SameEvent(current.value, old_log)
                  THEN ParseLoopSkipping(Tail(lines), current.value,
                                         Append(log_entries,
                                                parse_entries(current.value)))
             ELSE ParseLoopSkipping(Tail(lines), current.value,
                     [log_entries EXCEPT ![n].text =
                         MergeText(log_entries[n].text, current.value.text)])

\* log_parser.py:35-53  the loop over raw_data[1:]
RECURSIVE ParseLoop(_, _, _)
ParseLoop(lines, old_log, log_entries) ==
    IF lines = << >> THEN Returned(log_entries)
    ELSE IF IsBeginning(Head(lines))
         THEN ParseLoop(Tail(lines), old_log, log_entries)
    ELSE LET current == parse_raw_log(Head(lines))
             n       == Len(log_entries)
         IN  IF current.status # "ok" THEN current
             ELSE IF ~SameEvent(current.value, old_log)
                  THEN ParseLoop(Tail(lines), current.value,
                                 Append(log_entries,
                                        parse_entries(current.value)))
             ELSE ParseLoop(Tail(lines), current.value,
                     [log_entries EXCEPT ![n].text =
                         MergeText(log_entries[n].text, current.value.text)])

\* log_parser.py:12-59  LogParser.parse(message)
parse(message) ==
    LET stripped == StripLeading(message.rawLogData)
    IN  IF stripped.status # "ok" THEN stripped
        ELSE LET raw_data == stripped.value
                 first    == parse_raw_log(raw_data[1])
             IN  IF first.status # "ok" THEN first
                 ELSE LET entries == ParseLoop(Tail(raw_data), first.value,
                                        <<parse_entries(first.value)>>)
                      IN  IF entries.status # "ok" THEN entries
                          ELSE Returned([messageType |-> "logData",
                                         osType      |-> "Android",
                                         logEntries  |-> entries.value])

(***************************************************************************)
(* The websocket controller (websocket.py).                                *)
(*                                                                         *)
(* The server runs one gevent greenlet per connection.  A greenlet is      *)
(* switched out only where it blocks: in websocket.receive() and in        *)
(* connection.send().  Everything between two such points is one action.   *)
(***************************************************************************)
Conns  == {"A", "B", "C"}
Keys   == {"k1", "k2"}
Absent == "<absent>"      \* a field a dict does not hold

\* websocket.py:82,94,127,138,157  the keys of _ws_routes
_ws_routes ==
    {"startSession", "logDump", "endSession", "associateUser",
     "deviceMetrics"}

SessionFields == {"deviceName", "appName", "osType"}

\* What websocket.receive() hands to the loop: None, a text json.loads
\* rejects, or the text of a JSON object.
Message(read, type, key, fields, blob) ==
    [read |-> read, messageType |-> type, apiKey |-> key,
     fields |-> fields, rawLogData |-> blob]

\* The log dump of the end-to-end scenario: two lines with one header tuple,
\* then a line with another.
ScenarioDump ==
    <<LogLine("01-02 03:04:05", <<5>>, "10", "20", "I", "Tag", <<"a">>),
      LogLine("01-02 03:04:05", <<5>>, "10", "20", "I", "Tag", <<"b">>),
      LogLine("01-02 03:04:06", <<5>>, "10", "20", "I", "Tag", <<"a">>)>>

\* A log dump whose last line the header pattern does not match.
MalformedDump ==
    <<LogLine("01-02 03:04:05", <<5>>, "10", "20", "I", "Tag", <<"a">>),
      JunkLine>>

\* The rawLogData field of a message: missing, or the lines of its text.
NoDump == [present |-> FALSE, lines |-> << >>]
Dump(lines) == [present |-> TRUE, lines |-> lines]

Messages ==
    {Message("None", Absent, Absent, {}, NoDump),
     Message("undecodable", Absent, Absent, {}, NoDump),
     Message("json", "bogus", Absent, {}, NoDump),
     Message("json", "endSession", Absent, {}, NoDump),
     Message("json", "deviceMetrics", Absent, {}, NoDump),
     Message("json", "logDump", Absent, {}, Dump(ScenarioDump))}
    \cup {Message("json", "associateUser", k, {}, NoDump) :
             k \in Keys \cup {Absent}}
    \cup {Message("json", "startSession", k, SessionFields, NoDump) :
             k \in {"k1", Absent}}
    \cup {Message("json", "startSession", "k1", SessionFields \ {x}, NoDump) :
             x \in {"deviceName", "osType"}}

\* The messages of the fan-out and malformed-dump scenarios: attaches with
\* and without an API key, a full session, device metrics, a log dump that
\* LogParser rejects and a logDump without rawLogData.
ScenarioMessages ==
    {Message("json", "associateUser", "k1", {}, NoDump),
     Message("json", "associateUser", Absent, {}, NoDump),
     Message("json", "startSession", "k1", SessionFields, NoDump),
     Message("json", "deviceMetrics", Absent, {}, NoDump),
     Message("json", "logDump", Absent, {}, Dump(MalformedDump)),
     Message("json", "logDump", Absent, {}, NoDump)}

\* dict.get(key, '')
Get(value) == IF value = Absent THEN "" ELSE value

(***************************************************************************)
(* _web_ui_ws_connections: a dict from API key to a list of connections.   *)
(* The dict keeps insertion order, so it is a sequence of (key, list).     *)
(***************************************************************************)
Range(seq) == {seq[i] : i \in 1..Len(seq)}

KeysOf(registry) == {registry[i].key : i \in 1..Len(registry)}

\* registry[api_key], and the empty list where the key is missing
Coll(registry, api_key) ==
    IF api_key \in KeysOf(registry)
    THEN registry[CHOOSE i \in 1..Len(registry) :
                      registry[i].key = api_key].conns
    ELSE << >>

RECURSIVE Count(_, _)
Count(x, seq) ==
    IF seq = << >> THEN 0
    ELSE (IF Head(seq) = x THEN 1 ELSE 0) + Count(x, Tail(seq))

\* ListRemove as list.pop(0): drops the head whatever it is.
RemoveHead(list, x) == Tail(list)

\* list.remove(x): drops the first occurrence of x
RECURSIVE ListRemove(_, _)
ListRemove(list, x) ==
    IF list = << >> THEN << >>
    ELSE IF Head(list) = x THEN Tail(list)
    ELSE <<Head(list)>> \o ListRemove(Tail(list), x)

\* SetDefaultAppend as  _web_ui_ws_connections[api_key] = [websocket]
SetDefaultOverwrite(registry, api_key, websocket) ==
    IF api_key \in KeysOf(registry)
    THEN [i \in 1..Len(registry) |->
            IF registry[i].key = api_key
            THEN [registry[i] EXCEPT !.conns = <<websocket>>]
            ELSE registry[i]]
    ELSE Append(registry, [key |-> api_key, conns |-> <<websocket>>])

\* SetDefaultAppend as  setdefault(api_key, [websocket]).append(websocket):
\* the first attach under a key stores the connection twice.
SetDefaultSeededAppend(registry, api_key, websocket) ==
    IF api_key \in KeysOf(registry)
    THEN [i \in 1..Len(registry) |->
            IF registry[i].key = api_key
            THEN [registry[i] EXCEPT !.conns = Append(@, websocket)]
            ELSE registry[i]]
    ELSE Append(registry,
                [key |-> api_key, conns |-> <<websocket, websocket>>])

\* SetDefaultAppend with a membership test before the append.
SetDefaultAppendUnique(registry, api_key, websocket) ==
    IF api_key \in KeysOf(registry)
    THEN [i \in 1..Len(registry) |->
            IF /\ registry[i].key = api_key
               /\ websocket \notin Range(registry[i].conns)
            THEN [registry[i] EXCEPT !.conns = Append(@, websocket)]
            ELSE registry[i]]
    ELSE Append(registry, [key |-> api_key, conns |-> <<websocket>>])

\* websocket.py:154  _web_ui_ws_connections.setdefault(api_key, []).append(ws)
SetDefaultAppend(registry, api_key, websocket) ==
    IF api_key \in KeysOf(registry)
    THEN [i \in 1..Len(registry) |->
            IF registry[i].key = api_key
            THEN [registry[i] EXCEPT !.conns = Append(@, websocket)]
            ELSE registry[i]]
    ELSE Append(registry, [key |-> api_key, conns |-> <<websocket>>])

\* websocket.py:56-65  remove the connection: under the API key of its
\* metadata when it is truthy and holds the connection, else from the first
\* key (in dict order) whose list holds it.
RemoveConnection(registry, websocket, metadata) ==
    LET ws_api_key == Get(metadata.apiKey)
        holders == {i \in 1..Len(registry) :
                       websocket \in Range(registry[i].conns)}
    IN  IF /\ ws_api_key # ""
           /\ ws_api_key \in KeysOf(registry)
           /\ websocket \in Range(Coll(registry, ws_api_key))
        THEN [i \in 1..Len(registry) |->
                IF registry[i].key = ws_api_key
                THEN [registry[i] EXCEPT !.conns = ListRemove(@, websocket)]
                ELSE registry[i]]
        ELSE IF holders = {} THEN registry
        ELSE LET first == CHOOSE i \in holders : \A j \in holders : i <= j
             IN  [registry EXCEPT ![first].conns = ListRemove(@, websocket)]

\* Compact with the loop of lines 67-69 left out.
NoCompact(registry) == registry

\* websocket.py:67-69  delete every key whose list is empty
Compact(registry) == SelectSeq(registry, LAMBDA e : e.conns # << >>)

\* websocket.py:54-69  the disconnect cleanup
Cleanup(registry, websocket, metadata) ==
    Compact(RemoveConnection(registry, websocket, metadata))

\* find_associated_websockets(api_key, registry) of the user management
\* interface: the registry's own list for the key.
find_associated_websockets(api_key, registry) == Coll(registry, api_key)

\* websocket.py:172-179
_get_associated_websockets(api_key) ==
    find_associated_websockets(api_key, _web_ui_ws_connections)

(***************************************************************************)
(* The fan-out loop of device_metrics iterates over a list object that     *)
(* other greenlets mutate while it is blocked in send().  fan[c].key names *)
(* the list, fan[c].idx is the list iterator's position (elements already  *)
(* fetched), fan[c].target the connection whose send() is in progress, and *)
(* fan[c].live is FALSE once the list is no longer the registry's (it was  *)
(* created for a missing key, or its key was deleted when it was empty).   *)
(* fan[c].start and fan[c].sent_to are history: the list when the loop     *)
(* began, and the connections send() was completed for.                    *)
(***************************************************************************)
NoFan == [key |-> "", idx |-> 0, target |-> Absent, live |-> FALSE,
          start |-> << >>, sent_to |-> << >>]

\* websocket.py:168  the list object the for loop iterates: the one the
\* lookup returned, as the registry holds it now.
FanList(f, registry) ==
    IF f.live THEN find_associated_websockets(f.key, registry) ELSE << >>

\* next() of the list iterator: the next element, or the end of the loop
Advance(f, registry) ==
    IF f.idx < Len(FanList(f, registry))
    THEN [f EXCEPT !.idx = @ + 1, !.target = FanList(f, registry)[f.idx + 1]]
    ELSE [f EXCEPT !.target = Absent]

\* The iterators of the other connections after the registry changed: a list
\* whose key was deleted is no longer the registry's.
Orphan(fans, registry) ==
    [c \in Conns |->
        IF fans[c].live /\ fans[c].key \notin KeysOf(registry)
        THEN [fans[c] EXCEPT !.live = FALSE]
        ELSE fans[c]]

RouterInit ==
    /\ pc = [c \in Conns |-> "receive"]
    /\ closed = [c \in Conns |-> FALSE]
    /\ websocket_metadata = [c \in Conns |-> [apiKey |-> Absent, fields |-> {}]]
    /\ _web_ui_ws_connections = << >>
    /\ fan = [c \in Conns |-> NoFan]
    /\ inbox = [c \in Conns |-> << >>]
    /\ datastore = {}
    /\ raised = [c \in Conns |-> ""]
    /\ cleanups = [c \in Conns |-> 0]
    /\ associated = [c \in Conns |-> {}]
    /\ log_dumps = [c \in Conns |-> << >>]
    /\ send_errors = [c \in Conns |-> 0]
    /\ received = 0
    /\ attach_count = [c \in Conns |-> [k \in Keys \cup {""} |-> 0]]
    /\ raised_in = [c \in Conns |-> ""]
    /\ ignored = 0

\* websocket.py:51-69  the loop ends (websocket.closed, or WebSocketError)
\* and the cleanup runs; the function returns.
LeaveLoopFrom(c, fans) ==
    /\ pc' = [pc EXCEPT ![c] = "returned"]
    /\ _web_ui_ws_connections' =
           Cleanup(_web_ui_ws_connections, c, websocket_metadata[c])
    /\ fan' = [Orphan(fans, _web_ui_ws_connections') EXCEPT ![c] =
                  [@ EXCEPT !.target = Absent]]
    /\ cleanups' = [cleanups EXCEPT ![c] = @ + 1]

LeaveLoop(c) == LeaveLoopFrom(c, fan)

\* An exception that is not a WebSocketError leaves handle_websocket through
\* the try statement of lines 38-52: nothing after the loop runs.
Propagate(c, error, where) ==
    /\ pc' = [pc EXCEPT ![c] = "raised"]
    /\ raised' = [raised EXCEPT ![c] = error]
    /\ raised_in' = [raised_in EXCEPT ![c] = where]

\* websocket.py:82-91
start_session(c, message) ==
    /\ websocket_metadata' = [websocket_metadata EXCEPT ![c] =
          [apiKey |-> IF message.apiKey = Absent THEN @.apiKey
                      ELSE message.apiKey,
           fields |-> @.fields \cup message.fields
                        \cup {"messageType", "startTime"}]]
    /\ UNCHANGED <<pc, closed, _web_ui_ws_connections, fan, inbox, datastore,
                   raised, raised_in, cleanups, associated, attach_count,
                   log_dumps, send_errors>>

\* websocket.py:94-124.  message['rawLogData'] and metadata['osType'] are
\* evaluated first (KeyError when missing); LogParser.parse is then called
\* with two positional arguments, and log_parser.py:13 declares one
\* parameter: the call raises TypeError before parse runs.
log_dump(c, message) ==
    /\ log_dumps' = [log_dumps EXCEPT ![c] = Append(@, message.rawLogData)]
    /\ IF ~message.rawLogData.present
          \/ "osType" \notin websocket_metadata[c].fields
       THEN Propagate(c, "KeyError", "log_dump")
       ELSE Propagate(c, "TypeError", "log_dump")
    /\ UNCHANGED <<closed, websocket_metadata, _web_ui_ws_connections, fan,
                   inbox, datastore, cleanups, associated, attach_count,
                   send_errors>>

\* websocket.py:127-135
end_session(c, message) ==
    /\ IF {"deviceName", "appName", "startTime"}
             \subseteq websocket_metadata[c].fields
       THEN /\ datastore' = datastore \cup
                   {<<"set_session_over", c, Get(websocket_metadata[c].apiKey)>>,
                    <<"add_device_app", c, Get(websocket_metadata[c].apiKey)>>}
            /\ UNCHANGED <<pc, raised, raised_in>>
       ELSE /\ Propagate(c, "KeyError", "end_session")
            /\ UNCHANGED datastore
    /\ UNCHANGED <<closed, websocket_metadata, _web_ui_ws_connections, fan,
                   inbox, cleanups, associated, attach_count, log_dumps,
                   send_errors>>

\* websocket.py:138-154
associate_user(c, message) ==
    /\ _web_ui_ws_connections' =
           SetDefaultAppend(_web_ui_ws_connections, Get(message.apiKey), c)
    /\ associated' = [associated EXCEPT ![c] = @ \cup {Get(message.apiKey)}]
    /\ attach_count' = [attach_count EXCEPT ![c][Get(message.apiKey)] = @ + 1]
    /\ UNCHANGED <<pc, closed, websocket_metadata, fan, inbox, datastore,
                   raised, raised_in, cleanups, log_dumps, send_errors>>

\* websocket.py:157-169  up to the first connection.send(): the list is
\* looked up and the iterator fetches its first element.
device_metrics(c, message) ==
    LET api_key == Get(websocket_metadata[c].apiKey)
        f == Advance([key |-> api_key, idx |-> 0, target |-> Absent,
                      live |-> api_key \in KeysOf(_web_ui_ws_connections),
                      start |-> _get_associated_websockets(api_key),
                      sent_to |-> << >>],
                     _web_ui_ws_connections)
    IN  /\ fan' = [fan EXCEPT ![c] = f]
        /\ pc' = [pc EXCEPT ![c] =
                     IF f.target = Absent THEN "receive" ELSE "send"]
        /\ UNCHANGED <<closed, websocket_metadata, _web_ui_ws_connections,
                       inbox, datastore, raised, raised_in, cleanups,
                       associated, attach_count, log_dumps, send_errors>>

\* Continue as a break: the loop ends and the cleanup runs.
ContinueAsBreak(c) ==
    /\ LeaveLoop(c)
    /\ UNCHANGED <<closed, websocket_metadata, inbox, datastore, raised,
                   raised_in, associated, attach_count, log_dumps,
                   send_errors>>

\* websocket.py:40-41,45-47  continue: back to the head of the loop
Continue(c) ==
    UNCHANGED <<pc, closed, websocket_metadata, _web_ui_ws_connections, fan,
                inbox, datastore, raised, raised_in, cleanups, associated,
                attach_count, log_dumps, send_errors>>

\* websocket.py:40,45  the reads the loop skips: None, and a JSON object
\* whose messageType is no key of _ws_routes
Skipped(message) ==
    \/ message.read = "None"
    \/ message.read = "json" /\ message.messageType \notin _ws_routes

\* websocket.py:37-50  one turn of the receive loop on a live connection,
\* with at most limit messages read over all connections
ReceiveWithin(c, message, limit) ==
    /\ pc[c] = "receive"
    /\ ~closed[c]
    /\ received < limit
    /\ received' = received + 1
    /\ ignored' = IF Skipped(message) THEN ignored + 1 ELSE ignored
    /\ CASE message.read = "None" -> Continue(c)
         [] message.read = "undecodable" ->
              /\ Propagate(c, "ValueError", "handle_websocket")
              /\ UNCHANGED <<closed, websocket_metadata,
                             _web_ui_ws_connections, fan, inbox, datastore,
                             cleanups, associated, attach_count, log_dumps,
                             send_errors>>
         [] message.read = "json" /\ message.messageType \notin _ws_routes ->
              Continue(c)
         [] message.messageType = "startSession" -> start_session(c, message)
         [] message.messageType = "logDump" -> log_dump(c, message)
         [] message.messageType = "endSession" -> end_session(c, message)
         [] message.messageType = "associateUser" -> associate_user(c, message)
         [] message.messageType = "deviceMetrics" -> device_metrics(c, message)
    /\ UNCHANGED parserVars

Receive(c, message) == ReceiveWithin(c, message, MaxMsgs)

\* The peer goes away or the transport breaks: from now on the connection
\* reports closed and a send() to it raises WebSocketError.
Drop(c) ==
    /\ ~closed[c]
    /\ closed' = [closed EXCEPT ![c] = TRUE]
    /\ UNCHANGED <<pc, websocket_metadata, _web_ui_ws_connections, fan, inbox,
                   datastore, raised, raised_in, cleanups, associated,
                   attach_count, log_dumps, send_errors, received, ignored,
                   parserVars>>

\* websocket.py:37,51-69  the blocked receive of a dead connection ends the
\* loop (websocket.closed is true, or receive raises WebSocketError).
Disconnect(c) ==
    /\ pc[c] = "receive"
    /\ closed[c]
    /\ LeaveLoop(c)
    /\ UNCHANGED <<closed, websocket_metadata, inbox, datastore, raised,
                   raised_in, associated, attach_count, log_dumps,
                   send_errors, received, ignored, parserVars>>

\* websocket.py:168-169 (and 37, 51-69)  the send() in progress ends.  To a
\* dead connection it raises WebSocketError, which the sender's loop catches:
\* the sender's loop breaks.  Otherwise the message is delivered and the loop
\* goes on to the next element of the list; after the last one the handler
\* returns to line 37, which reads websocket.closed without blocking: a sender
\* that died during its fan-out leaves the loop and runs the cleanup at once,
\* any other goes back to receive.
SendDone(c) ==
    /\ pc[c] = "send"
    /\ LET target == fan[c].target
       IN  IF closed[target]
           THEN /\ send_errors' = [send_errors EXCEPT ![c] = @ + 1]
                /\ LeaveLoop(c)
                /\ UNCHANGED inbox
           ELSE LET f == Advance([fan[c] EXCEPT
                                     !.sent_to = Append(@, target)],
                                 _web_ui_ws_connections)
                IN  /\ inbox' = [inbox EXCEPT ![target] =
                           Append(@, [messageType |-> "deviceMetrics",
                                      from |-> c])]
                    /\ UNCHANGED send_errors
                    /\ IF f.target = Absent /\ closed[c]
                       THEN LeaveLoopFrom(c, [fan EXCEPT ![c] = f])
                       ELSE /\ fan' = [fan EXCEPT ![c] = f]
                            /\ pc' = [pc EXCEPT ![c] =
                                         IF f.target = Absent THEN "receive"
                                         ELSE "send"]
                            /\ UNCHANGED <<_web_ui_ws_connections,
                                           cleanups>>
    /\ UNCHANGED <<closed, websocket_metadata, datastore, raised, raised_in,
                   associated, attach_count, log_dumps, received, ignored,
                   parserVars>>

Init ==
    /\ RouterInit
    /\ rawLogData = << >>
    /\ parsed = [status |-> "pending", value |-> << >>]

Next ==
    \/ \E c \in Conns, message \in Messages : Receive(c, message)
    \/ \E c \in Conns : Drop(c)
    \/ \E c \in Conns : Disconnect(c)
    \/ \E c \in Conns : SendDone(c)

Spec == Init /\ [][Next]_vars

(***************************************************************************)
(* ScenarioSpec: the same server reading only ScenarioMessages, one more   *)
(* of them than Spec reads.                                                *)
(***************************************************************************)
ScenarioReceive(c, message) == ReceiveWithin(c, message, MaxScenarioMsgs)

ScenarioNext ==
    \/ \E c \in Conns, message \in ScenarioMessages :
          ScenarioReceive(c, message)
    \/ \E c \in Conns : Drop(c)
    \/ \E c \in Conns : Disconnect(c)
    \/ \E c \in Conns : SendDone(c)

ScenarioSpec == Init /\ [][ScenarioNext]_vars

(***************************************************************************)
(* FanSpec: the same server reading only the messages of a fan-out under   *)
(* an API key: attaches under k1, a full session under k1, device metrics  *)
(* and the log dump of the end-to-end scenario.                            *)
(***************************************************************************)
FanMessages ==
    {Message("json", "associateUser", "k1", {}, NoDump),
     Message("json", "startSession", "k1", SessionFields, NoDump),
     Message("json", "deviceMetrics", Absent, {}, NoDump),
     Message("json", "logDump", Absent, {}, Dump(ScenarioDump))}

FanReceive(c, message) == ReceiveWithin(c, message, MaxFanMsgs)

FanNext ==
    \/ \E c \in Conns, message \in FanMessages : FanReceive(c, message)
    \/ \E c \in Conns : Drop(c)
    \/ \E c \in Conns : Disconnect(c)
    \/ \E c \in Conns : SendDone(c)

FanSpec == Init /\ [][FanNext]_vars

(***************************************************************************)
(* ParserSpec: every rawLogData of at most MaxLines lines, then one call   *)
(* of LogParser.parse.                                                     *)
(***************************************************************************)
ParserInit ==
    /\ rawLogData \in SeqsUpTo(Lines, MaxLines)
    /\ parsed = [status |-> "pending", value |-> << >>]
    /\ RouterInit

Parse ==
    /\ parsed.status = "pending"
    /\ parsed' = parse([rawLogData |-> rawLogData])
    /\ UNCHANGED <<rawLogData, routerVars>>

ParserNext == Parse

ParserSpec == ParserInit /\ [][ParserNext]_vars

(***************************************************************************)
(* DumpSpec: one rawLogData of at most MaxDumpLines lines, which           *)
(* LogParser.parse is called on and which every logDump message carries;   *)
(* the server reads attaches under k1, full sessions under k1 and these    *)
(* logDump messages.                                                       *)
(***************************************************************************)
DumpLines ==
    {LogLine("01-02 03:04:05", <<5>>, "10", "20", "I", "Tag", <<"a">>),
     LogLine("01-02 03:04:06", <<5>>, "10", "20", "I", "Tag", <<"a">>),
     LogLine("13-45 03:04:05", <<5>>, "10", "20", "I", "Tag", <<"a">>),
     BeginningLine,
     JunkLine}

DumpMessages ==
    {Message("json", "associateUser", "k1", {}, NoDump),
     Message("json", "startSession", "k1", SessionFields, NoDump),
     Message("json", "logDump", Absent, {}, Dump(rawLogData))}

DumpInit ==
    /\ rawLogData \in SeqsUpTo(DumpLines, MaxDumpLines)
    /\ parsed = [status |-> "pending", value |-> << >>]
    /\ RouterInit

DumpReceive(c, message) == ReceiveWithin(c, message, MaxDumpMsgs)

DumpNext ==
    \/ Parse
    \/ \E c \in Conns, message \in DumpMessages : DumpReceive(c, message)

DumpSpec == DumpInit /\ [][DumpNext]_vars

(***************************************************************************)
(* Properties of LogParser.parse, checked under ParserSpec.                *)
(***************************************************************************)
Substantive(raw_data) == SelectSeq(raw_data, LAMBDA l : ~IsBeginning(l))

Prefix(s, n) == SubSeq(s, 1, n)

\* The (time, processId, threadId, logType, tag) tuple of a well-formed line.
HeaderTuple(line) ==
    LET p == parse_raw_log(line).value
    IN  <<p.time, p.processId, p.threadId, p.logType, p.tag>>

StartsRun(s, i) == i = 1 \/ HeaderTuple(s[i]) # HeaderTuple(s[i - 1])

RunOf(s, i) == Cardinality({j \in 1..i : StartsRun(s, j)})

\* The texts of the lines of run r of s, in order, joined by sep.
RECURSIVE JoinRun(_, _, _, _)
JoinRun(s, r, sep, i) ==
    IF i > Len(s) THEN << >>
    ELSE IF RunOf(s, i) # r THEN JoinRun(s, r, sep, i + 1)
    ELSE IF StartsRun(s, i) THEN s[i].text \o JoinRun(s, r, sep, i + 1)
    ELSE <<sep>> \o s[i].text \o JoinRun(s, r, sep, i + 1)

ParsedOk == parsed.status = "ok"

\* C8: every maximal run of consecutive substantive lines with one header
\* tuple yields exactly one entry, whose text is the run's texts joined by a
\* single newline and nothing else.
C8_RunJoinedByNewline ==
    ParsedOk =>
        LET s == Substantive(rawLogData)
            e == parsed.value.logEntries
        IN  /\ Len(e) = RunOf(s, Len(s))
            /\ \A r \in 1..Len(e) : e[r].text = JoinRun(s, r, "\n", 1)

\* What the code does instead: the separator is a newline and a space.
RunJoinedByNewlineSpace ==
    ParsedOk =>
        LET s == Substantive(rawLogData)
            e == parsed.value.logEntries
        IN  /\ Len(e) = RunOf(s, Len(s))
            /\ \A r \in 1..Len(e) : e[r].text = JoinRun(s, r, "\n ", 1)

NoBeginningLines ==
    \A i \in 1..Len(rawLogData) : ~IsBeginning(rawLogData[i])

IsSuffix(x, t) ==
    Len(x) <= Len(t) /\ SubSeq(t, Len(t) - Len(x) + 1, Len(t)) = x

\* C9: on substantive lines, line i > 1 starts a new entry exactly when its
\* header tuple differs from that of line i-1, and is otherwise merged into
\* the last entry; so there are 1 + (number of differing adjacent pairs)
\* entries, in the order of their first lines.
C9_NewEntryIffTupleDiffers ==
    (ParsedOk /\ NoBeginningLines) =>
        LET s == rawLogData
            e == parsed.value.logEntries
        IN  /\ Len(e) = 1 + Cardinality({i \in 2..Len(s) :
                               HeaderTuple(s[i]) # HeaderTuple(s[i - 1])})
            /\ \A i \in 1..Len(s) :
                 StartsRun(s, i) =>
                    LET first == parse_entries(parse_raw_log(s[i]).value)
                        entry == e[RunOf(s, i)]
                    IN  /\ entry.time = first.time
                        /\ entry.logType = first.logType
                        /\ entry.tag = first.tag
                        /\ Prefix(entry.text, Len(first.text)) = first.text
            /\ \A i \in 2..Len(s) :
                 LET before == parse([rawLogData |-> Prefix(s, i - 1)])
                                   .value.logEntries
                     after  == parse([rawLogData |-> Prefix(s, i)])
                                   .value.logEntries
                     n      == Len(before)
                 IN  IF HeaderTuple(s[i]) # HeaderTuple(s[i - 1])
                     THEN after = Append(before,
                              parse_entries(parse_raw_log(s[i]).value))
                     ELSE /\ Len(after) = n
                          /\ Prefix(after, n - 1) = Prefix(before, n - 1)
                          /\ after[n].time = before[n].time
                          /\ after[n].logType = before[n].logType
                          /\ after[n].tag = before[n].tag
                          /\ Prefix(after[n].text, Len(before[n].text))
                                = before[n].text
                          /\ IsSuffix(s[i].text, after[n].text)
                          /\ Len(after[n].text) > Len(before[n].text)
                                                  + Len(s[i].text) - 1

\* Witness of C9: three substantive lines A, B, A' where B differs from A and
\* A' equals A's tuple: three entries, the third not merged into the first.
C9_Witness ==
    /\ ParsedOk /\ NoBeginningLines
    /\ Len(rawLogData) = 3
    /\ HeaderTuple(rawLogData[1]) # HeaderTuple(rawLogData[2])
    /\ HeaderTuple(rawLogData[1]) = HeaderTuple(rawLogData[3])
    /\ Len(parsed.value.logEntries) = 3

\* C10: lines matching "beginning of /dev/log/" never produce or contribute
\* to an entry, wherever they stand: parse returns (or raises) what it returns
\* for the same rawLogData with those lines deleted.
C10_BeginningLinesIgnored ==
    parsed.status # "pending" =>
        parsed = parse([rawLogData |-> Substantive(rawLogData)])

\* Witness of C10: a beginning line between two lines of one merge run, whose
\* texts end up in a single entry.
C10_Witness ==
    /\ ParsedOk
    /\ Len(rawLogData) = 3
    /\ ~IsBeginning(rawLogData[1])
    /\ IsBeginning(rawLogData[2])
    /\ ~IsBeginning(rawLogData[3])
    /\ HeaderTuple(rawLogData[1]) = HeaderTuple(rawLogData[3])
    /\ Len(parsed.value.logEntries) = 1

(***************************************************************************)
(* Properties of the websocket controller, checked under Spec.             *)
(***************************************************************************)
AllKeys == Keys \cup {""}

InRegistry(c) ==
    \E i \in 1..Len(_web_ui_ws_connections) :
        c \in Range(_web_ui_ws_connections[i].conns)

\* C1: whenever the receive loop of a connection has stopped, for whatever
\* reason, the disconnect cleanup has run exactly once for it.
C1_CleanupOnEveryExit ==
    \A c \in Conns : pc[c] \in {"returned", "raised"} => cleanups[c] = 1

\* C2: once the disconnect cleanup of a connection has completed, no key's
\* collection contains the connection.
C2_NoReferenceAfterCleanup ==
    \A c \in Conns : cleanups[c] > 0 => ~InRegistry(c)

\* C3: between two handler or cleanup executions, every key present in the
\* registry maps to a non-empty collection.
C3_NoEmptyCollection ==
    \A i \in 1..Len(_web_ui_ws_connections) :
        _web_ui_ws_connections[i].conns # << >>

\* Witness of C3: a cleanup emptied the collection of a key, which is gone,
\* while another key keeps its connections.
C3_Witness ==
    \E c \in Conns : \E k \in associated[c] :
        /\ cleanups[c] = 1
        /\ k \notin KeysOf(_web_ui_ws_connections)
        /\ _web_ui_ws_connections # << >>

\* C4: observer b attached under k1, producer a with a full session under k1
\* handles the scenario's logDump: b is sent exactly one logData message, of
\* exactly two entries, the first merging the first two raw lines.
C4_EndToEnd ==
    [][\A a \in Conns : \A b \in Conns \ {a} :
          ( /\ log_dumps'[a] = Append(log_dumps[a], Dump(ScenarioDump))
            /\ websocket_metadata[a].apiKey = "k1"
            /\ SessionFields \cup {"startTime"}
                  \subseteq websocket_metadata[a].fields
            /\ Coll(_web_ui_ws_connections, "k1") = <<b>>
            /\ ~closed[b] )
          => /\ Len(inbox'[b]) = Len(inbox[b]) + 1
             /\ LET m == inbox'[b][Len(inbox'[b])]
                IN  /\ m.messageType = "logData"
                    /\ Len(m.logEntries) = 2
                    /\ Prefix(m.logEntries[1].text, 1) = ScenarioDump[1].text
                    /\ IsSuffix(ScenarioDump[2].text, m.logEntries[1].text)
      ]_vars

\* C5: no attach is lost: every connection that sent associateUser for a key
\* and has not been cleaned up is in the key's collection, whatever the other
\* connections' handlers and cleanups did in between.
C5_NoAttachLost ==
    \A c \in Conns : \A k \in associated[c] :
        cleanups[c] = 0 => c \in Range(Coll(_web_ui_ws_connections, k))

\* Witness of C5: every connection attached under k1, and all are there.
C5_Witness ==
    /\ \A c \in Conns : "k1" \in associated[c] /\ cleanups[c] = 0
    /\ Range(Coll(_web_ui_ws_connections, "k1")) = Conns

\* C6: the cleanup of connection a leaves the occurrences of every other
\* connection under every key unchanged, and deletes a key only if a was all
\* its collection held.
C6_CleanupFrame ==
    [][\A a \in Conns :
          cleanups'[a] # cleanups[a] =>
             /\ \A b \in Conns \ {a} : \A k \in AllKeys :
                   Count(b, Coll(_web_ui_ws_connections', k))
                      = Count(b, Coll(_web_ui_ws_connections, k))
             /\ \A k \in KeysOf(_web_ui_ws_connections)
                            \ KeysOf(_web_ui_ws_connections') :
                   Coll(_web_ui_ws_connections, k) = <<a>>
      ]_vars

\* Witness of C6: a was cleaned up out of a collection in which b stays, and
\* b is also under another key.
C6_Witness ==
    \E a \in Conns : \E b \in Conns \ {a} : \E k \in associated[a] :
        /\ cleanups[a] = 1
        /\ a \notin Range(Coll(_web_ui_ws_connections, k))
        /\ b \in Range(Coll(_web_ui_ws_connections, k))
        /\ \E k2 \in AllKeys \ {k} :
              b \in Range(Coll(_web_ui_ws_connections, k2))

\* C7: a send that raises a transport error during the fan-out of producer a
\* does not end a's receive loop: a goes on to the remaining observers or
\* back to receive.
C7_SendErrorSparesProducer ==
    [][\A a \in Conns :
          send_errors'[a] # send_errors[a] => pc'[a] \in {"receive", "send"}
      ]_vars

\* C11: the collection of key k holds connection c once for every
\* associateUser c sent for k (so c is in it after the first, and twice after
\* two), for as long as c has not been cleaned up.
C11_AttachStoredEveryTime ==
    \A c \in Conns : \A k \in AllKeys :
        cleanups[c] = 0 =>
            Count(c, Coll(_web_ui_ws_connections, k)) = attach_count[c][k]

\* Witness of C11: a connection sent associateUser twice for one key and is
\* in the key's collection twice.
C11_Witness ==
    \E c \in Conns : \E k \in AllKeys :
        /\ attach_count[c][k] = 2
        /\ cleanups[c] = 0
        /\ Count(c, Coll(_web_ui_ws_connections, k)) = 2

\* C12: a read of None or of an unrecognised messageType changes nothing but
\* the count of reads: no loop leaves receive, no connection is closed,
\* nothing is sent or stored, the registry and all metadata stay as they are,
\* and the reading connection is still in its loop, open.
C12_SkippedReadIsNoOp ==
    [][ignored' # ignored =>
          /\ pc' = pc
          /\ closed' = closed
          /\ websocket_metadata' = websocket_metadata
          /\ _web_ui_ws_connections' = _web_ui_ws_connections
          /\ fan' = fan
          /\ inbox' = inbox
          /\ datastore' = datastore
          /\ raised' = raised
          /\ cleanups' = cleanups
          /\ \E c \in Conns : pc'[c] = "receive" /\ ~closed'[c]
      ]_vars

\* Witness of C12: reads were skipped and a later message was dispatched to a
\* handler, with every loop still running.
C12_Witness ==
    /\ ignored = 2
    /\ received = 3
    /\ _web_ui_ws_connections # << >>
    /\ \A c \in Conns : pc[c] = "receive"

CompleteSession(c) ==
    /\ websocket_metadata[c].apiKey # Absent
    /\ SessionFields \cup {"startTime"} \subseteq websocket_metadata[c].fields

\* C13: a logDump whose rawLogData LogParser rejects, handled by a connection
\* with a complete session, is fatal to that call only: the connection is
\* back in its receive loop, with no exception raised out of it.
C13_ParseErrorKeepsLoop ==
    [][\A c \in Conns :
          ( /\ log_dumps'[c] # log_dumps[c]
            /\ CompleteSession(c)
            /\ LET dump == log_dumps'[c][Len(log_dumps'[c])]
               IN  /\ dump.present
                   /\ parse([rawLogData |-> dump.lines]).status # "ok" )
          => pc'[c] = "receive" /\ raised'[c] = raised[c]
      ]_vars

\* C14: while the metadata of connection c lacks osType, apiKey, deviceName,
\* appName or startTime, no datastore call is made for c, and a logDump c
\* handles ends c's loop with no datastore call and no send.
C14_MissingMetadataIsFatal ==
    [][\A c \in Conns :
          ~CompleteSession(c) =>
             /\ \A call \in datastore' \ datastore : call[2] # c
             /\ log_dumps'[c] # log_dumps[c] =>
                   /\ pc'[c] \in {"raised", "returned"}
                   /\ datastore' = datastore
                   /\ inbox' = inbox
                   /\ pc'[c] # "send"
      ]_vars

\* C15: a producer that never sent startSession never gets a deviceMetrics
\* message through: no send of its handler is in progress and no connection
\* was sent a message by it.
C15_NoSessionNoFanOut ==
    \A a \in Conns :
        websocket_metadata[a].fields = {} =>
            /\ pc[a] # "send"
            /\ \A b \in Conns : \A i \in 1..Len(inbox[b]) :
                   inbox[b][i].from # a

(***************************************************************************)
(* More properties of LogParser.parse, checked under ParserSpec.           *)
(***************************************************************************)
MappedLevels == {"I", "W", "V", "E", "D", "A"}

LevelName(level) ==
    CASE level = "I" -> "Info"
      [] level = "W" -> "Warning"
      [] level = "V" -> "Verbose"
      [] level = "E" -> "Error"
      [] level = "D" -> "Debug"
      [] level = "A" -> "WTF"

\* A line the header pattern matches and whose time parses.
WellFormedUpToLevel(line) ==
    line.kind = "log" /\ strptime(line.stamp, line.frac).status = "ok"

\* C16: when every substantive line is well formed and has a level among I,
\* W, V, E, D, A, the dump parses and the entry of every line has the log type
\* Info, Warning, Verbose, Error, Debug, WTF of its level; and a line with
\* any other level, after lines that parse, makes parse raise KeyError.
C16_LevelMappingTotal ==
    parsed.status # "pending" =>
        LET s == Substantive(rawLogData)
        IN  /\ ( /\ s # << >>
                 /\ \A i \in 1..Len(s) :
                       WellFormedUpToLevel(s[i]) /\ s[i].level \in MappedLevels )
               => /\ ParsedOk
                  /\ \A i \in 1..Len(s) :
                        parsed.value.logEntries[RunOf(s, i)].logType
                           = LevelName(s[i].level)
            /\ \A i \in 1..Len(s) :
                  ( /\ \A j \in 1..i :  WellFormedUpToLevel(s[j])
                    /\ \A j \in 1..(i - 1) : s[j].level \in MappedLevels
                    /\ s[i].level \notin MappedLevels )
                  => parsed = Raised("KeyError")

\* Witness of C16: three lines of levels A, D and E parsed into entries of
\* types WTF, Debug and Error.
C16_Witness ==
    /\ ParsedOk
    /\ Len(rawLogData) = 3
    /\ rawLogData[1].level = "A"
    /\ rawLogData[2].level = "D"
    /\ rawLogData[3].level = "E"
    /\ [i \in 1..3 |-> parsed.value.logEntries[i].logType]
          = <<"WTF", "Debug", "Error">>

\* A substantive line the header pattern does not match, or whose time
\* strptime rejects.
Malformed(line) == line.kind # "log" \/ line.stamp \notin ValidStamps

HasMalformedLine(raw_data) ==
    \E i \in 1..Len(raw_data) :
        ~IsBeginning(raw_data[i]) /\ Malformed(raw_data[i])

\* LogParser.parse rejects as a whole a dump with a malformed substantive
\* line at any position: it raises, and returns no entry.
ParseRejectsMalformedDump ==
    (parsed.status # "pending" /\ HasMalformedLine(rawLogData)) =>
        /\ parsed.status \in {"AttributeError", "ValueError", "KeyError"}
        /\ parsed.value = << >>

\* C17: a dump with a malformed substantive line at any position is rejected
\* as a whole: parse raises and returns no entry of the lines before it, and
\* the logDump handler of a connection that handles the dump makes no
\* datastore call and sends nothing to any connection.
C17_MalformedDumpRejectedWhole ==
    [][ /\ ParseRejectsMalformedDump'
        /\ \A c \in Conns :
              ( /\ log_dumps'[c] # log_dumps[c]
                /\ HasMalformedLine(log_dumps'[c][Len(log_dumps'[c])].lines) )
              => /\ datastore' = datastore
                 /\ inbox' = inbox
                 /\ pc'[c] # "send"
      ]_vars

\* Witness of C17: two well-formed lines, then a line the header pattern does
\* not match: parse raised, and a producer with a complete session under k1
\* handled the dump while an observer was attached under k1: nothing was
\* stored and the observer was sent nothing.
C17_Witness ==
    /\ Len(rawLogData) = 3
    /\ \A i \in 1..2 : /\ ~IsBeginning(rawLogData[i])
                        /\ parse_raw_log(rawLogData[i]).status = "ok"
    /\ rawLogData[3] = JunkLine
    /\ parsed = Raised("AttributeError")
    /\ \E a \in Conns : \E b \in Conns \ {a} :
          /\ websocket_metadata[a].apiKey = "k1"
          /\ SessionFields \cup {"startTime"}
                \subseteq websocket_metadata[a].fields
          /\ log_dumps[a] = <<Dump(rawLogData)>>
          /\ b \in Range(Coll(_web_ui_ws_connections, "k1"))
          /\ inbox[b] = << >>
          /\ datastore = {}

(***************************************************************************)
(* More properties of the websocket controller.                            *)
(***************************************************************************)

\* C18: for a connection that is in no key's collection, or whose cleanup has
\* already run, running the cleanup (again) leaves the registry unchanged.
C18_SecondRemovalIsNoOp ==
    \A c \in Conns :
        (~InRegistry(c) \/ cleanups[c] > 0) =>
            Cleanup(_web_ui_ws_connections, c, websocket_metadata[c])
               = _web_ui_ws_connections

\* The part of C18 the code keeps: the cleanup of a connection that is in no
\* collection leaves the registry as it is.
RemovalOfNonMemberIsNoOp ==
    \A c \in Conns :
        ~InRegistry(c) =>
            Cleanup(_web_ui_ws_connections, c, websocket_metadata[c])
               = _web_ui_ws_connections

C20_NoObserverSkipped ==
    \A a \in Conns :
        ( /\ pc[a] = "receive"
          /\ fan[a].target = Absent
          /\ send_errors[a] = 0 )
        => \A b \in Range(fan[a].start) :
              (cleanups[b] = 0 /\ ~closed[b])
                 => b \in Range(fan[a].sent_to)

=============================================================================
